---- MODULE Spec2Model ----
(***************************************************************************)
(* b32dec: streaming Base32 decoder (src/src/b32dec.c).                    *)
(*                                                                         *)
(* b32dec_entry reads STDIN with fgets into an 81 byte buffer, skips       *)
(* isspace() characters, collects the others in base32[9] and hands every  *)
(* full group of 8 (and the leftover after end of input) to b32dec_output, *)
(* which decodes, optionally hex-formats and writes the result to STDOUT.  *)
(*                                                                         *)
(* Characters and bytes are their ASCII codes.  base32ToBinary and         *)
(* binaryToHexadecimal and the error state live in common.h, which is not  *)
(* among the sources; they are modelled from the specification (4.2, 4.3,  *)
(* 3 "Error State").                                                       *)
(***************************************************************************)
EXTENDS Integers, Sequences, FiniteSets, TLC

VARIABLES
    input,      \* the whole content of STDIN of this run (never changes)
    stdin,      \* the part of STDIN not yet read by fgets
    buffer,     \* the unread rest of the C string in buffer[81]
    base32,     \* base32[0 .. convUsed-1]
    hexOutput,  \* the -x / --hex-output flag
    error,      \* the process-wide error state
    binary,     \* b32dec_output's binary[0 .. binarySize-1] of the last call
    stdout,     \* the bytes transferred to STDOUT
    stderr,     \* the messages given to errorMessage
    calls,      \* the chunks handed to b32dec_output, in call order
    writes,     \* the sizes passed to fwrite, in call order
    pc,         \* the position in b32dec_entry
    exitStatus  \* the process' exit status, -1 while it runs

vars == <<input, stdin, buffer, base32, hexOutput, error, binary, stdout,
          stderr, calls, writes, pc, exitStatus>>

----------------------------------------------------------------------------
(* Bounds of the model *)

\* the longest free tail of an input
MaxTail == 2
\* the longest prefix of BaseText an input starts with
MaxPre == 8

(* Program constants *)

\* char buffer[81]
BufSize == 81
\* char base32[9]
ChunkCap == 9
\* char binary[5]
BinaryCap == 5
\* char hex[10]
HexCap == 10
\* if (convUsed == 8)
GroupSize == 8

EXIT_SUCCESS == 0
EXIT_FAILURE == 1

----------------------------------------------------------------------------
(* Sequences *)

Take(s, n) == SubSeq(s, 1, IF n < Len(s) THEN n ELSE Len(s))
Drop(s, n) == SubSeq(s, n + 1, Len(s))
Last(s) == s[Len(s)]
Front(s) == SubSeq(s, 1, Len(s) - 1)
Min(a, b) == IF a < b THEN a ELSE b

RECURSIVE Spaces(_)
Spaces(n) == IF n = 0 THEN <<>> ELSE <<32>> \o Spaces(n - 1)

RECURSIVE SeqsUpTo(_, _)
SeqsUpTo(S, n) ==
    IF n = 0 THEN {<<>>}
    ELSE LET shorter == SeqsUpTo(S, n - 1)
         IN  shorter \cup {Append(s, c) : s \in {t \in shorter : Len(t) = n - 1}, c \in S}

\* index of the first element of s in S, Len(s) + 1 when there is none
RECURSIVE FirstIn(_, _, _)
FirstIn(s, S, i) ==
    IF i > Len(s) THEN i
    ELSE IF s[i] \in S THEN i
    ELSE FirstIn(s, S, i + 1)

----------------------------------------------------------------------------
(* The error state (common.h; specification 3 "Error State") *)

NOERROR == "NONE"
INV_B32_DATA == "INV_B32_DATA"
INV_B32_SIZE == "INV_B32_SIZE"
WRITE_FAILED == "WRITE_FAILED"
ErrorCodes == {NOERROR, INV_B32_DATA, INV_B32_SIZE, WRITE_FAILED}

isAnyError(e) == e # NOERROR
isError(e, code) == e = code

----------------------------------------------------------------------------
(* Alphabet Table (specification 3): A-Z are 0..25, 2-7 are 26..31 *)

Alphabet == (65 .. 90) \cup (50 .. 55)

B32Value(c) == IF c \in 65 .. 90 THEN c - 65 ELSE c - 50 + 26

B32Char(v) == IF v < 26 THEN 65 + v ELSE 50 + (v - 26)

(* Decode Engine (specification 4.2) *)

\* step 1: the partial-group table, chunk length -> byte count
ValidSizes == {0, 2, 4, 5, 7, 8}

ByteCount(len) ==
    CASE len = 0 -> 0
      [] len = 2 -> 1
      [] len = 4 -> 2
      [] len = 5 -> 3
      [] len = 7 -> 4
      [] len = 8 -> 5

\* step 3: shift the 5-bit values into an accumulator, most significant bit
\* first, and take a byte off its top whenever it holds 8 bits or more; stop
\* after `count` bytes, leaving the remaining bits
RECURSIVE Pack(_, _, _, _, _)
Pack(chunk, i, acc, nbits, count) ==
    IF count = 0 \/ i > Len(chunk) THEN <<>>
    ELSE LET a == acc * 32 + B32Value(chunk[i])
             n == nbits + 5
         IN  IF n >= 8
             THEN <<a \div (2 ^ (n - 8))>>
                      \o Pack(chunk, i + 1, a % (2 ^ (n - 8)), n - 8, count - 1)
             ELSE Pack(chunk, i + 1, a, n, count)

\* size_t base32ToBinary(char *base32, size_t base32Size, char *binary, size_t binarySize):
\* the error it sets, the payload of the error and the bytes it stores
base32ToBinary(chunk, binarySize) ==
    LET bad == FirstIn(chunk, (0 .. 127) \ Alphabet, 1)
    IN  IF Len(chunk) \notin ValidSizes
        THEN [err |-> INV_B32_SIZE, payload |-> Len(chunk), bytes |-> <<>>]
        ELSE IF bad <= Len(chunk)
        THEN [err |-> INV_B32_DATA, payload |-> chunk[bad], bytes |-> <<>>]
        ELSE [err |-> NOERROR, payload |-> 0,
              bytes |-> Pack(chunk, 1, 0, 0, Min(ByteCount(Len(chunk)), binarySize))]

(* Hex Formatter (specification 4.3) *)

HexDigit(n) == IF n < 10 THEN 48 + n ELSE 97 + (n - 10)

RECURSIVE binaryToHexadecimal(_, _)
binaryToHexadecimal(bytes, hexSize) ==
    IF bytes = <<>> \/ hexSize < 2 THEN <<>>
    ELSE <<HexDigit(Head(bytes) \div 16), HexDigit(Head(bytes) % 16)>>
             \o binaryToHexadecimal(Tail(bytes), hexSize - 2)

----------------------------------------------------------------------------
(* The inputs of a run *)

\* "NBSWY3DP" twice: two full groups, each decoding to "hello"
BaseText == <<78, 66, 83, 87, 89, 51, 68, 80, 78, 66, 83, 87, 89, 51, 68, 80>>

\* 'A' (0), 'Z' (25), '1' (not in the alphabet), space, tab, newline,
\* vertical tab, carriage return, NUL
TailChars == {65, 90, 49, 32, 9, 10, 11, 13, 0}

\* "MY", "M\fY", "11111111", "ABC", "NB SW\nY3 DP", and "NBSWY3DP" behind so
\* many spaces that the group lies across the end of the first fgets buffer
Scenarios ==
    { <<77, 89>>,
      <<77, 12, 89>>,
      <<49, 49, 49, 49, 49, 49, 49, 49>>,
      <<65, 66, 67>>,
      <<78, 66, 32, 83, 87, 10, 89, 51, 32, 68, 80>>,
      Spaces(BufSize - 4) \o Take(BaseText, GroupSize) }

Inputs ==
    {Take(BaseText, n) \o t : n \in 0 .. MaxPre, t \in SeqsUpTo(TailChars, MaxTail)}
        \cup Scenarios

----------------------------------------------------------------------------
(* The C library *)

\* variant: isblank() in place of isspace(): space and \t only
isblank(c) == c \in {32, 9}

\* isspace() in the "C" locale: space, \t, \n, \v, \f, \r
isspace(c) == c \in {32, 9, 10, 11, 12, 13}

\* fgets(buffer, size, stdin): the characters it stores, i.e. at most
\* size - 1, ending with the first newline
FgetsLine(stream, size) ==
    Take(stream, Min(FirstIn(stream, {10}, 1), size - 1))

\* the C string a char array holds: its content up to the first NUL
CString(chars) == Take(chars, FirstIn(chars, {0}, 1) - 1)

----------------------------------------------------------------------------
(* The state after construction: main() has not yet called b32dec_entry *)

Init ==
    /\ input \in Inputs
    /\ stdin = input
    /\ buffer = <<>>
    /\ base32 = <<>>
    /\ hexOutput = FALSE
    /\ error \in {NOERROR, WRITE_FAILED}
    /\ binary = <<>>
    /\ stdout = <<>>
    /\ stderr = <<>>
    /\ calls = <<>>
    /\ writes = <<>>
    /\ pc = "start"
    /\ exitStatus = -1

convUsed == Len(base32)

----------------------------------------------------------------------------
(* void b32dec_output(char * base32, bool hexOutput) *)

Message(text, arg) == [text |-> text, arg |-> arg]

\* the diagnostic of the isAnyError() branch
DecodeDiagnostic(e) ==
    IF isError(e, INV_B32_DATA)
    THEN Message("Invalid data value encountered on STDIN.", "")
    ELSE IF isError(e, INV_B32_SIZE)
    THEN Message("Invalid data size encountered on STDIN.", "")
    ELSE Message("Unexpected error %d (%s) encountered.", e)

\* fwrite(out, outSize, 1, stdout) that transfers n bytes: the number of
\* items written, which is 0 for an item of size 0
fwrite(out, n) == IF n = Len(out) /\ Len(out) > 0 THEN 1 ELSE 0

\* variant: the error is reported but the process goes on with the input
ExitOmitted(status) ==
    /\ pc' = "scan"
    /\ exitStatus' = exitStatus

\* variant: exit(EXIT_SUCCESS)
ExitWithSuccess(status) ==
    /\ pc' = "exited"
    /\ exitStatus' = EXIT_SUCCESS

\* exit(EXIT_FAILURE)
Exit(status) ==
    /\ pc' = "exited"
    /\ exitStatus' = status

\* variant: outSize = sizeof(binary), the whole buffer is written
FormattedFullBuffer(bytes, hex) ==
    IF hex THEN binaryToHexadecimal(bytes, HexCap)
    ELSE bytes \o [i \in 1 .. BinaryCap - Len(bytes) |-> 0]

\* variant: the test of hexOutput is inverted
FormattedInverted(bytes, hex) ==
    IF hex THEN bytes ELSE binaryToHexadecimal(bytes, HexCap)

\* the bytes handed to fwrite: hex when hexOutput, else binary
\* variant: the hex digits need room for a terminating NUL in hex[10], so
\* five bytes do not fit and nothing is formatted
FormattedNeedsNul(bytes, hex) ==
    IF hex
    THEN (IF 2 * Len(bytes) > HexCap - 1
          THEN <<>>
          ELSE binaryToHexadecimal(bytes, HexCap))
    ELSE bytes

Formatted(bytes, hex) ==
    IF hex THEN binaryToHexadecimal(bytes, HexCap) ELSE bytes

\* variant: the call passes one byte less than binary holds
DecodedShortBuffer(chunk) == base32ToBinary(chunk, BinaryCap - 1)

\* size_t binarySize = base32ToBinary(base32, (size_t) -1, binary, sizeof(binary));
Decoded(chunk) == base32ToBinary(chunk, BinaryCap)

\* variant: only an invalid size ends the run, other errors are passed over
ReportSizeErrorOnly(e, chunk) ==
    /\ error' = e
    /\ base32' = chunk
    /\ IF isError(e, INV_B32_SIZE)
       THEN /\ stderr' = Append(stderr, DecodeDiagnostic(e))
            /\ Exit(EXIT_FAILURE)
       ELSE /\ pc' = "scan"
            /\ UNCHANGED <<stderr, exitStatus>>
    /\ UNCHANGED <<stdout, writes>>

\* if (isAnyError()) { errorMessage(...); exit(EXIT_FAILURE); }
ReportDecodeError(e, chunk) ==
    /\ error' = e
    /\ stderr' = Append(stderr, DecodeDiagnostic(e))
    /\ Exit(EXIT_FAILURE)
    /\ base32' = chunk
    /\ UNCHANGED <<stdout, writes>>

\* variant: the result of fwrite is not tested
WriteOutUnchecked(out, chunk, okpc, okbase32) ==
    \E n \in 0 .. Len(out) :
        /\ writes' = Append(writes, Len(out))
        /\ stdout' = stdout \o Take(out, n)
        /\ pc' = okpc
        /\ base32' = okbase32
        /\ UNCHANGED <<error, stderr, exitStatus>>

\* variant: a short write is followed by a second fwrite of the rest
WriteOutRetry(out, chunk, okpc, okbase32) ==
    \E n \in 0 .. Len(out) :
        /\ writes' = (IF n < Len(out) THEN writes \o <<Len(out), Len(out) - n>>
                                      ELSE Append(writes, Len(out)))
        /\ stdout' = stdout \o out
        /\ pc' = okpc
        /\ base32' = okbase32
        /\ UNCHANGED <<error, stderr, exitStatus>>

\* if (fwrite(out, outSize, 1, stdout) != 1) { setError(WRITE_FAILED); ... };
\* the sink takes any number n of the bytes
WriteOut(out, chunk, okpc, okbase32) ==
    \E n \in 0 .. Len(out) :
        /\ writes' = Append(writes, Len(out))
        /\ stdout' = stdout \o Take(out, n)
        /\ IF fwrite(out, n) # 1
           THEN /\ error' = WRITE_FAILED
                /\ stderr' = Append(stderr, Message("Write to STDOUT failed.", ""))
                /\ Exit(EXIT_FAILURE)
                /\ base32' = chunk
           ELSE /\ pc' = okpc
                /\ base32' = okbase32
                /\ UNCHANGED <<error, stderr, exitStatus>>

\* the call b32dec_output(chunk, hexOutput); when it returns, b32dec_entry
\* goes on at `okpc` with `okbase32` in base32[0 .. convUsed-1]
b32dec_output(chunk, okpc, okbase32) ==
    LET r == Decoded(chunk)
        e == IF r.err # NOERROR THEN r.err ELSE error
    IN  /\ calls' = Append(calls, chunk)
        /\ binary' = r.bytes
        /\ IF isAnyError(e)
           THEN ReportDecodeError(e, chunk)
           ELSE WriteOut(Formatted(r.bytes, hexOutput), chunk, okpc, okbase32)

----------------------------------------------------------------------------
(* int b32dec_entry(int argc, char** argv, int argo, commandEntry_t * entry) *)

\* variant: resetError() is missing
resetErrorOmitted == error' = error

\* resetError()
resetError == error' = NOERROR

\* the option loop, with or without -x / --hex-output, then resetError()
Start ==
    /\ pc = "start"
    /\ \E x \in BOOLEAN : hexOutput' = x
    /\ resetError
    /\ pc' = "read"
    /\ UNCHANGED <<input, stdin, buffer, base32, binary, stdout, stderr,
                   calls, writes, exitStatus>>

\* fgets(buffer, sizeof(buffer), stdin) returns a line
Fgets ==
    /\ pc = "read"
    /\ stdin # <<>>
    /\ LET line == FgetsLine(stdin, BufSize)
       IN  /\ buffer' = CString(line)
           /\ stdin' = Drop(stdin, Len(line))
    /\ pc' = "scan"
    /\ UNCHANGED <<input, base32, hexOutput, error, binary, stdout, stderr,
                   calls, writes, exitStatus>>

\* fgets returns NULL at the end of the input
FgetsEOF ==
    /\ pc = "read"
    /\ stdin = <<>>
    /\ pc' = "tail"
    /\ UNCHANGED <<input, stdin, buffer, base32, hexOutput, error, binary,
                   stdout, stderr, calls, writes, exitStatus>>

\* *(++input) is the terminating NUL: back to fgets
ScanEnd ==
    /\ pc = "scan"
    /\ buffer = <<>>
    /\ pc' = "read"
    /\ UNCHANGED <<input, stdin, buffer, base32, hexOutput, error, binary,
                   stdout, stderr, calls, writes, exitStatus>>

\* variant: convUsed is advanced before the isspace() test, the whitespace
\* character stays in the chunk
ScanSpaceCounted ==
    /\ pc = "scan"
    /\ buffer # <<>>
    /\ isspace(Head(buffer))
    /\ base32' = Append(base32, Head(buffer))
    /\ buffer' = Tail(buffer)
    /\ UNCHANGED <<input, stdin, hexOutput, error, binary, stdout, stderr,
                   calls, writes, pc, exitStatus>>

\* if (isspace(*input)) continue;
ScanSpace ==
    /\ pc = "scan"
    /\ buffer # <<>>
    /\ isspace(Head(buffer))
    /\ buffer' = Tail(buffer)
    /\ UNCHANGED <<input, stdin, base32, hexOutput, error, binary, stdout,
                   stderr, calls, writes, pc, exitStatus>>

\* variant: the character is put in front of the chunk
ScanStorePrepend ==
    /\ pc = "scan"
    /\ buffer # <<>>
    /\ ~isspace(Head(buffer))
    /\ convUsed + 1 # GroupSize
    /\ base32' = <<Head(buffer)>> \o base32
    /\ buffer' = Tail(buffer)
    /\ UNCHANGED <<input, stdin, hexOutput, error, binary, stdout, stderr,
                   calls, writes, pc, exitStatus>>

\* base32[convUsed++] = *input; with convUsed still below 8
ScanStore ==
    /\ pc = "scan"
    /\ buffer # <<>>
    /\ ~isspace(Head(buffer))
    /\ convUsed + 1 # GroupSize
    /\ base32' = Append(base32, Head(buffer))
    /\ buffer' = Tail(buffer)
    /\ UNCHANGED <<input, stdin, hexOutput, error, binary, stdout, stderr,
                   calls, writes, pc, exitStatus>>

\* variant: convUsed = 0 is missing after the call
ScanFlushNoReset ==
    /\ pc = "scan"
    /\ buffer # <<>>
    /\ ~isspace(Head(buffer))
    /\ convUsed + 1 = GroupSize
    /\ b32dec_output(Append(base32, Head(buffer)), "scan", Append(base32, Head(buffer)))
    /\ buffer' = Tail(buffer)
    /\ UNCHANGED <<input, stdin, hexOutput>>

\* base32[convUsed++] = *input; convUsed == 8: terminate the chunk, hand it
\* to b32dec_output, convUsed = 0
ScanFlush ==
    /\ pc = "scan"
    /\ buffer # <<>>
    /\ ~isspace(Head(buffer))
    /\ convUsed + 1 = GroupSize
    /\ b32dec_output(Append(base32, Head(buffer)), "scan", <<>>)
    /\ buffer' = Tail(buffer)
    /\ UNCHANGED <<input, stdin, hexOutput>>

\* variant: while (convUsed > 0) in place of if (convUsed > 0)
RemainingLoop ==
    /\ pc = "tail"
    /\ IF convUsed > 0
       THEN b32dec_output(base32, "tail", base32)
       ELSE /\ pc' = "return"
            /\ UNCHANGED <<base32, error, binary, stdout, stderr, calls,
                           writes, exitStatus>>
    /\ UNCHANGED <<input, stdin, buffer, hexOutput>>

\* variant: no test of convUsed, the remaining characters are decoded even
\* when there are none
RemainingAlways ==
    /\ pc = "tail"
    /\ b32dec_output(base32, "return", base32)
    /\ UNCHANGED <<input, stdin, buffer, hexOutput>>

\* variant: if (convUsed > 1), a single remaining character is dropped
RemainingOffByOne ==
    /\ pc = "tail"
    /\ IF convUsed > 1
       THEN b32dec_output(base32, "return", base32)
       ELSE /\ pc' = "return"
            /\ UNCHANGED <<base32, error, binary, stdout, stderr, calls,
                           writes, exitStatus>>
    /\ UNCHANGED <<input, stdin, buffer, hexOutput>>

\* if (convUsed > 0): the remaining data are terminated and handed to
\* b32dec_output; convUsed keeps its value
Remaining ==
    /\ pc = "tail"
    /\ IF convUsed > 0
       THEN b32dec_output(base32, "return", base32)
       ELSE /\ pc' = "return"
            /\ UNCHANGED <<base32, error, binary, stdout, stderr, calls,
                           writes, exitStatus>>
    /\ UNCHANGED <<input, stdin, buffer, hexOutput>>

\* return EXIT_SUCCESS;
Return ==
    /\ pc = "return"
    /\ pc' = "done"
    /\ exitStatus' = EXIT_SUCCESS
    /\ UNCHANGED <<input, stdin, buffer, base32, hexOutput, error, binary,
                   stdout, stderr, calls, writes>>

Next ==
    \/ Start
    \/ Fgets
    \/ FgetsEOF
    \/ ScanEnd
    \/ ScanSpace
    \/ ScanStore
    \/ ScanFlush
    \/ Remaining
    \/ Return

Spec == Init /\ [][Next]_vars

\* the run goes on until it returns or exits
FairSpec == Spec /\ WF_vars(Next)

----------------------------------------------------------------------------
(* Notions the properties share *)

Terminated == pc \in {"done", "exited"}

\* the chunk of the last b32dec_output call
LastChunk == Last(calls)

AllAlphabet(chunk) == \A i \in 1 .. Len(chunk) : chunk[i] \in Alphabet

DecodeFailed == error \in {INV_B32_DATA, INV_B32_SIZE}

\* the number of characters of s outside S
RECURSIVE CountOutside(_, _)
CountOutside(s, S) ==
    IF s = <<>> THEN 0
    ELSE (IF Head(s) \in S THEN 0 ELSE 1) + CountOutside(Tail(s), S)

\* the byte count the partial-group table gives for a valid length
TableCount(L) ==
    CASE L = 0 -> 0 [] L = 2 -> 1 [] L = 4 -> 2
      [] L = 5 -> 3 [] L = 7 -> 4 [] L = 8 -> 5

----------------------------------------------------------------------------
(* C1: a chunk of alphabet characters whose length L is 0, 2, 4, 5, 7 or 8
   decodes without error to exactly 0, 1, 2, 3, 4 or 5 bytes, which never
   exceeds binary[5].  The driver hands over the lengths 1 to 8; the empty
   chunk is decoded directly. *)
C1_ByteCountByLength ==
    /\ Decoded(<<>>).err = NOERROR
    /\ Decoded(<<>>).bytes = <<>>
    /\ (calls # <<>> /\ AllAlphabet(LastChunk) /\ Len(LastChunk) \in {0, 2, 4, 5, 7, 8})
          => /\ ~DecodeFailed
             /\ Len(binary) = TableCount(Len(LastChunk))
             /\ Len(binary) <= BinaryCap

\* a full group of 8 has been decoded to 5 bytes
C1_Witness ==
    /\ calls # <<>>
    /\ AllAlphabet(LastChunk)
    /\ Len(LastChunk) = 8
    /\ Len(binary) = 5
    /\ ~DecodeFailed

----------------------------------------------------------------------------
\* bit k (1 is the most significant) of the w-bit number v
BitOf(v, w, k) == (v \div (2 ^ (w - k))) % 2

\* bit k of the concatenated 5-bit values of a chunk
ChunkBit(chunk, k) == BitOf(B32Value(chunk[((k - 1) \div 5) + 1]), 5, ((k - 1) % 5) + 1)

\* bit k of a byte sequence
ByteBit(bytes, k) == BitOf(bytes[((k - 1) \div 8) + 1], 8, ((k - 1) % 8) + 1)

(* C2: the bytes decoded from a valid chunk are the successive 8-bit groups,
   from the most significant end, of the concatenated 5-bit values of its
   characters in chunk order; the bits past the last full byte are dropped.
   "NBSWY3DP" gives "hello" and "MY" gives the byte 0x66. *)
C2_BitPacking ==
    /\ (calls # <<>> /\ AllAlphabet(LastChunk) /\ Len(LastChunk) \in ValidSizes)
          => /\ Len(binary) = (5 * Len(LastChunk)) \div 8
             /\ \A k \in 1 .. 8 * Len(binary) : ByteBit(binary, k) = ChunkBit(LastChunk, k)
    /\ (input = <<78, 66, 83, 87, 89, 51, 68, 80>> /\ pc = "done" /\ ~hexOutput)
          => stdout = <<104, 101, 108, 108, 111>>
    /\ (input = <<77, 89>> /\ pc = "done" /\ ~hexOutput)
          => stdout = <<102>>

\* the run on "NBSWY3DP" has ended with "hello" on STDOUT
C2_Witness ==
    /\ input = <<78, 66, 83, 87, 89, 51, 68, 80>>
    /\ pc = "done"
    /\ ~hexOutput
    /\ calls = <<input>>
    /\ stdout = <<104, 101, 108, 108, 111>>

----------------------------------------------------------------------------
\* the diagnostic and the exit of a failed decode: nothing is written
HaltedOnDecode(code, text) ==
    /\ error = code
    /\ pc = "exited"
    /\ exitStatus = EXIT_FAILURE
    /\ Last(stderr).text = text
    /\ binary = <<>>
    /\ Len(writes) = Len(calls) - 1

(* C3 as stated: every input whose number of non-whitespace characters
   modulo 8 is 1, 3 or 6 halts with the invalid-size error on the leftover
   chunk.  Stated for inputs without NUL. *)
C3_Original ==
    LET n == CountOutside(input, {32, 9, 10, 11, 12, 13})
    IN  (Terminated /\ 0 \notin {input[i] : i \in 1 .. Len(input)} /\ n % 8 \in {1, 3, 6})
           => /\ pc = "exited"
              /\ error = INV_B32_SIZE
              /\ Len(LastChunk) = n % 8

(* C3 (amended): every chunk handed to b32dec_output whose length is not 0,
   2, 4, 5, 7 or 8 fails with INV_B32_SIZE, whatever its characters; every
   run that reaches the end of the input with 1, 3 or 6 characters
   collected halts with the invalid-size error on that leftover and never
   returns; "ABC" does so. *)
C3_InvalidSize ==
    /\ [](/\ (calls # <<>> /\ Len(LastChunk) \notin {0, 2, 4, 5, 7, 8})
                => HaltedOnDecode(INV_B32_SIZE, "Invalid data size encountered on STDIN.")
          /\ pc \in {"return", "done"} => convUsed \notin {1, 3, 6}
          /\ (input = <<65, 66, 67>> /\ Terminated)
                => (error = INV_B32_SIZE /\ calls = <<input>>))
    /\ [][(pc = "tail" /\ convUsed \in {1, 3, 6})
             => (pc' = "exited" /\ error' = INV_B32_SIZE /\ LastChunk' = base32
                   /\ exitStatus' = EXIT_FAILURE /\ stdout' = stdout)]_vars

\* a leftover of 1 character behind a written group has halted the run
C3_Witness ==
    /\ Len(calls) = 2
    /\ Len(LastChunk) = 1
    /\ stdin = <<>>
    /\ error = INV_B32_SIZE
    /\ pc = "exited"

----------------------------------------------------------------------------
(* C4 as stated: every chunk handed to the decode engine that holds a
   character outside the alphabet, at any index, fails with INV_B32_DATA. *)
C4_Original ==
    (calls # <<>> /\ ~AllAlphabet(LastChunk)) => error = INV_B32_DATA

(* C4 (amended): a chunk of valid length (2, 4, 5, 7 or 8) that holds a
   character outside the alphabet, at any index, fails with INV_B32_DATA
   and nothing is written for it; a chunk of invalid length fails with
   INV_B32_SIZE even when it holds such a character, as the length is
   checked first.  "11111111" fails with INV_B32_DATA and no output. *)
C4_InvalidData ==
    /\ (calls # <<>> /\ ~AllAlphabet(LastChunk))
          => IF Len(LastChunk) \in {2, 4, 5, 7, 8}
             THEN HaltedOnDecode(INV_B32_DATA, "Invalid data value encountered on STDIN.")
             ELSE HaltedOnDecode(INV_B32_SIZE, "Invalid data size encountered on STDIN.")
    /\ (input = <<49, 49, 49, 49, 49, 49, 49, 49>> /\ pc # "start" /\ calls # <<>>)
          => (error = INV_B32_DATA /\ stdout = <<>> /\ exitStatus = EXIT_FAILURE)

\* a full group whose last character alone is outside the alphabet has
\* halted the run
C4_Witness ==
    /\ calls # <<>>
    /\ Len(LastChunk) = 8
    /\ AllAlphabet(Front(LastChunk))
    /\ LastChunk[8] \notin Alphabet
    /\ error = INV_B32_DATA
    /\ pc = "exited"

----------------------------------------------------------------------------
(* Reference notions of the stream properties *)

NotInSet(s, S) == LET keep(c) == c \notin S IN SelectSeq(s, keep)

\* s cut into consecutive groups of n, the last one shorter when Len(s) is
\* no multiple of n
RECURSIVE Groups(_, _)
Groups(s, n) ==
    IF s = <<>> THEN <<>>
    ELSE <<Take(s, n)>> \o Groups(Drop(s, n), n)

\* the bytes the chunks decode to, one after the other
RECURSIVE RawAll(_)
RawAll(chunks) ==
    IF chunks = <<>> THEN <<>>
    ELSE Decoded(Head(chunks)).bytes \o RawAll(Tail(chunks))

\* "0123456789abcdef"
HexDigits == <<48, 49, 50, 51, 52, 53, 54, 55, 56, 57, 97, 98, 99, 100, 101, 102>>

\* the lowercase hexadecimal text of a byte sequence
LowerHex(bytes) ==
    [i \in 1 .. 2 * Len(bytes) |->
        LET b == bytes[(i + 1) \div 2]
        IN  HexDigits[(IF i % 2 = 1 THEN b \div 16 ELSE b % 16) + 1]]

IsPrefix(s, t) == Len(s) <= Len(t) /\ s = SubSeq(t, 1, Len(s))

\* space, tab, newline, carriage return
Whitespace == {32, 9, 10, 13}

\* a stream of alphabet characters and whitespace whose groups all have a
\* valid length
ValidStream(s) ==
    /\ \A i \in 1 .. Len(s) : s[i] \in Alphabet \cup Whitespace
    /\ CountOutside(s, Whitespace) % 8 \in {0, 2, 4, 5, 7}

----------------------------------------------------------------------------
(* C5: whitespace is transparent.  The run on a valid stream depends on
   the stream only through its non-whitespace characters: the chunks it
   decodes are the groups of 8 of the stream with space, tab, newline and
   carriage return taken out, only a write can fail, and when it returns
   STDOUT holds the decoding of those groups, wherever the whitespace and
   the ends of the fgets buffers lie.  "NB SW\nY3 DP" gives "hello". *)
C5_WhitespaceTransparent ==
    LET groups == Groups(NotInSet(input, Whitespace), GroupSize)
        expected == RawAll(groups)
    IN  /\ (ValidStream(input) /\ pc # "start")
              => /\ IsPrefix(calls, groups)
                 /\ error \in {NOERROR, WRITE_FAILED}
                 /\ IsPrefix(stdout, IF hexOutput THEN LowerHex(expected) ELSE expected)
                 /\ pc = "done"
                       => /\ calls = groups
                          /\ stdout = (IF hexOutput THEN LowerHex(expected) ELSE expected)
                          /\ exitStatus = EXIT_SUCCESS
        /\ (input = <<78, 66, 32, 83, 87, 10, 89, 51, 32, 68, 80>> /\ pc = "done" /\ ~hexOutput)
              => stdout = <<104, 101, 108, 108, 111>>

\* the run on "NB SW\nY3 DP" has returned with "hello" on STDOUT
C5_Witness ==
    /\ input = <<78, 66, 32, 83, 87, 10, 89, 51, 32, 68, 80>>
    /\ pc = "done"
    /\ ~hexOutput
    /\ stdout = <<104, 101, 108, 108, 111>>
    /\ calls = <<<<78, 66, 83, 87, 89, 51, 68, 80>>>>

\* the run on "NBSWY3DP" behind 77 spaces, read in two fgets calls, has
\* returned with "hello" on STDOUT
C5_WitnessLongLine ==
    /\ Len(input) = BufSize - 4 + GroupSize
    /\ pc = "done"
    /\ ~hexOutput
    /\ stdout = <<104, 101, 108, 108, 111>>

----------------------------------------------------------------------------
\* the characters of a stream that the scan loop stores: of every line fgets
\* delivers, the C string without its isspace() characters
RECURSIVE Accepted(_)
Accepted(stream) ==
    IF stream = <<>> THEN <<>>
    ELSE LET line == FgetsLine(stream, BufSize)
         IN  NotInSet(CString(line), {32, 9, 10, 11, 12, 13})
                 \o Accepted(Drop(stream, Len(line)))

(* C6: with the hex flag, what is written for a decoded chunk is the
   lowercase hexadecimal text of its bytes, two digits per byte, high
   nibble first, and STDOUT holds the hexadecimal text of all bytes decoded so
   far with nothing between the blocks; a run that returns has written, for
   the chunks of its input, their bytes without the flag and the
   hexadecimal text of the same bytes with it.  "MY" gives "66". *)
C6_HexOutput ==
    /\ (hexOutput /\ pc # "start" /\ calls # <<>> /\ error = NOERROR)
          => /\ stdout = LowerHex(RawAll(calls))
             /\ Last(writes) = 2 * Len(binary)
             /\ Drop(stdout, Len(stdout) - 2 * Len(binary)) = LowerHex(binary)
    /\ (~hexOutput /\ pc # "start" /\ calls # <<>> /\ error = NOERROR)
          => /\ stdout = RawAll(calls)
             /\ Last(writes) = Len(binary)
    /\ pc = "done" => calls = Groups(Accepted(input), GroupSize)
    /\ (input = <<77, 89>> /\ pc = "done" /\ hexOutput) => stdout = <<54, 54>>

\* a run with the flag has returned after two chunks, "hello" and one more
\* byte, with 12 hexadecimal digits on STDOUT
C6_Witness ==
    /\ hexOutput
    /\ pc = "done"
    /\ Len(calls) = 2
    /\ Take(stdout, 10) = <<54, 56, 54, 53, 54, 99, 54, 99, 54, 102>>
    /\ Len(stdout) = 12

----------------------------------------------------------------------------
\* a decode or a write of this run has failed
Failed == pc # "start" /\ error # NOERROR

(* C7: Halted is terminal.  Once a decode or a write has failed the process
   has exited with EXIT_FAILURE, and after that no chunk is handed to
   b32dec_output, nothing is written and the run does not go on. *)
C7_HaltedIsTerminal ==
    /\ [](Failed => (pc = "exited" /\ exitStatus = EXIT_FAILURE))
    /\ [][Failed => /\ pc' = "exited"
                    /\ calls' = calls
                    /\ writes' = writes
                    /\ stdout' = stdout
                    /\ error' = error]_vars

\* the run has halted on its first chunk with input left unread
C7_Witness ==
    /\ Failed
    /\ pc = "exited"
    /\ Len(calls) = 1
    /\ buffer # <<>>

----------------------------------------------------------------------------
RECURSIVE Sum(_)
Sum(s) == IF s = <<>> THEN 0 ELSE Head(s) + Sum(Tail(s))

\* every chunk handed over so far was decoded and written completely
NoFailure ==
    /\ \A i \in 1 .. Len(calls) : Decoded(calls[i]).err = NOERROR
    /\ Len(writes) = Len(calls)
    /\ \A i \in 1 .. Len(writes) : writes[i] > 0
    /\ Len(stdout) = Sum(writes)

(* C8: the run ends with status 0 exactly when all input was read and no
   decode and no write failed; it ends with a status other than 0 whenever
   INV_B32_DATA, INV_B32_SIZE or WRITE_FAILED was raised. *)
C8_ExitStatus ==
    /\ ~Terminated => exitStatus = -1
    /\ Terminated
          => /\ exitStatus \in {EXIT_SUCCESS, EXIT_FAILURE}
             /\ exitStatus = EXIT_SUCCESS
                   <=> (stdin = <<>> /\ buffer = <<>> /\ NoFailure)
             /\ exitStatus = EXIT_SUCCESS <=> error = NOERROR
             /\ error \in {INV_B32_DATA, INV_B32_SIZE, WRITE_FAILED}
                   => exitStatus # 0

\* all input was read and decoded, the last write failed: status 1
C8_Witness ==
    /\ pc = "exited"
    /\ stdin = <<>>
    /\ buffer = <<>>
    /\ error = WRITE_FAILED
    /\ Len(calls) = 2
    /\ exitStatus = EXIT_FAILURE

----------------------------------------------------------------------------
(* The standard Base32 encoder without padding, over the same alphabet *)

\* bit k of a byte sequence, 0 past its end
PaddedBit(bytes, k) == IF k > 8 * Len(bytes) THEN 0 ELSE ByteBit(bytes, k)

Encode(bytes) ==
    [j \in 1 .. (8 * Len(bytes) + 4) \div 5 |->
        B32Char(  16 * PaddedBit(bytes, 5 * j - 4) + 8 * PaddedBit(bytes, 5 * j - 3)
                + 4 * PaddedBit(bytes, 5 * j - 2) + 2 * PaddedBit(bytes, 5 * j - 1)
                + PaddedBit(bytes, 5 * j))]

\* the number of bits of a chunk of length L past its last full byte
DroppedBits(L) == 5 * L - 8 * ((5 * L) \div 8)

(* C9 as stated: for every chunk of alphabet characters of valid length,
   encoding the decoded bytes reproduces the chunk. *)
C9_Original ==
    (calls # <<>> /\ AllAlphabet(LastChunk) /\ Len(LastChunk) \in {0, 2, 4, 5, 7, 8})
       => Encode(binary) = LastChunk

(* C9 (amended): for every chunk of alphabet characters whose length is 0,
   2, 4, 5, 7 or 8, encoding the decoded bytes gives a chunk of the same
   length that agrees with the original in all characters but the last, and
   reproduces the original exactly when the bits of its last character past
   the last full byte (2, 4, 1, 3, 0 bits for the lengths 2, 4, 5, 7, 8) are
   zero: always for a chunk of 8, and for no shorter chunk whose dropped
   bits are set. *)
C9_RoundTrip ==
    /\ Encode(Decoded(<<>>).bytes) = <<>>
    /\ (calls # <<>> /\ AllAlphabet(LastChunk) /\ Len(LastChunk) \in {0, 2, 4, 5, 7, 8})
          => LET L == Len(LastChunk)
                 back == Encode(binary)
             IN  /\ Len(back) = L
                 /\ Front(back) = Front(LastChunk)
                 /\ (back = LastChunk)
                       <=> (B32Value(LastChunk[L]) % (2 ^ DroppedBits(L)) = 0)
                 /\ L = 8 => back = LastChunk

\* "MY" has been decoded and encodes back to "MY"
C9_Witness ==
    /\ calls = <<<<77, 89>>>>
    /\ ~DecodeFailed
    /\ Encode(binary) = <<77, 89>>

\* a chunk of 2 whose dropped bits are set has been decoded and does not
\* encode back to itself
C9_WitnessLossy ==
    /\ calls # <<>>
    /\ Len(LastChunk) = 2
    /\ AllAlphabet(LastChunk)
    /\ Encode(binary) # LastChunk

----------------------------------------------------------------------------
(* C10: in a run without failure the chunks handed to b32dec_output are the
   non-whitespace characters of the input, in stream order, in consecutive
   groups of 8 and one final group of 1 to 7 when their number is no
   multiple of 8, each handed over once.  Whitespace is what isspace()
   skips. *)
C10_ChunksAreTheInput ==
    pc = "done" => calls = Groups(NotInSet(input, {32, 9, 10, 11, 12, 13}), GroupSize)

\* what does hold: the chunks are the groups of the characters the scan loop
\* sees, which end at the first NUL of every line fgets delivers
C10_ChunksOfAccepted ==
    /\ IsPrefix(calls, Groups(Accepted(input), GroupSize))
    /\ pc = "done" => calls = Groups(Accepted(input), GroupSize)
    /\ (pc = "done" /\ 0 \notin {input[i] : i \in 1 .. Len(input)})
          => calls = Groups(NotInSet(input, {32, 9, 10, 11, 12, 13}), GroupSize)

----------------------------------------------------------------------------
\* the bytes b32dec_output hands to fwrite for decoded bytes
AsWritten(bytes) == IF hexOutput THEN LowerHex(bytes) ELSE bytes

(* C11 as stated: when the run halts on the k-th chunk, STDOUT holds exactly
   the formatted decodings of the chunks 1 .. k-1 and nothing of the
   failing chunk. *)
C11_Original ==
    (pc = "exited" /\ calls # <<>>) => stdout = AsWritten(RawAll(Front(calls)))

(* C11 (amended): when the run halts on the k-th chunk because its decode
   failed, STDOUT holds exactly the formatted decodings of the chunks
   1 .. k-1, in stream order, and nothing of the failing chunk; when it halts
   because the write of the k-th chunk failed, STDOUT holds those decodings
   followed by the bytes of the k-th chunk that the failed write did
   transfer, fewer than requested and possibly none. *)
C11_OutputAtHalt ==
    (pc = "exited" /\ calls # <<>>)
       => LET good == AsWritten(RawAll(Front(calls)))
              part == Len(stdout) - Len(good)
          IN  IF DecodeFailed
              THEN /\ stdout = good
                   /\ Len(writes) = Len(calls) - 1
              ELSE /\ error = WRITE_FAILED
                   /\ Len(writes) = Len(calls)
                   /\ part >= 0
                   /\ part < Last(writes)
                   /\ stdout = good \o Take(AsWritten(binary), part)

\* the run has halted on the decode of its second chunk with the five bytes
\* of the first on STDOUT
C11_Witness ==
    /\ pc = "exited"
    /\ DecodeFailed
    /\ Len(calls) = 2
    /\ ~hexOutput
    /\ stdout = <<104, 101, 108, 108, 111>>

\* the run has halted on the write of its second chunk, part of which is
\* on STDOUT
C11_WitnessShortWrite ==
    /\ pc = "exited"
    /\ error = WRITE_FAILED
    /\ Len(calls) = 2
    /\ hexOutput
    /\ Len(stdout) = 11

----------------------------------------------------------------------------
(* C12: a write that transfers fewer bytes than requested, or none, sets
   the error state to WRITE_FAILED, reports it and exits with EXIT_FAILURE;
   b32dec_output calls fwrite at most once per chunk, so the write is not
   retried and the missing bytes are never written. *)
C12_WriteFailureIsFatal ==
    /\ [](/\ Len(writes) <= Len(calls)
          /\ (pc # "start" /\ error = WRITE_FAILED)
                => /\ pc = "exited"
                   /\ exitStatus = EXIT_FAILURE
                   /\ Len(writes) = Len(calls)
                   /\ Last(stderr).text = "Write to STDOUT failed."
                   /\ Len(stdout) < Sum(writes))
    /\ [][(writes' # writes /\ Len(stdout') - Len(stdout) < Last(writes'))
             => /\ error' = WRITE_FAILED
                /\ pc' = "exited"
                /\ exitStatus' = EXIT_FAILURE
                /\ Len(writes') = Len(writes) + 1]_vars

\* the only write of the run has transferred some but not all of its bytes
C12_Witness ==
    /\ error = WRITE_FAILED
    /\ pc = "exited"
    /\ Len(calls) = 1
    /\ Len(writes) = 1
    /\ Len(stdout) > 0
    /\ Len(stdout) < Last(writes)

----------------------------------------------------------------------------
(* C13: the chunk length is always between 0 and 8; it is 8 only inside the
   flush (the process has exited in b32dec_output with the full chunk) and
   0 to 7 whenever the next character is read; the terminator base32[convUsed]
   = 0 is written at an index below 9; an input of whitespace only, the
   empty input included, gives no output, no decode call and no error. *)
C13_ChunkLength ==
    /\ convUsed \in 0 .. 8
    /\ convUsed = 8 => (pc = "exited" /\ calls # <<>> /\ LastChunk = base32)
    /\ pc \in {"start", "read", "scan", "tail", "return", "done"} => convUsed <= 7
    /\ \A i \in 1 .. Len(calls) : Len(calls[i]) \in 1 .. ChunkCap - 1
    /\ ((\A i \in 1 .. Len(input) : input[i] \in {32, 9, 10, 11, 12, 13}) /\ pc # "start")
          => /\ calls = <<>>
             /\ writes = <<>>
             /\ stdout = <<>>
             /\ stderr = <<>>
             /\ error = NOERROR
             /\ pc # "exited"

\* a group of 8 was flushed, the chunk is empty again and the next
\* character is about to be read
C13_Witness ==
    /\ pc = "scan"
    /\ buffer # <<>>
    /\ convUsed = 0
    /\ Len(calls) = 1
    /\ Len(LastChunk) = 8

\* the run on an input of two whitespace characters has returned without a
\* decode call
C13_WitnessBlankInput ==
    /\ pc = "done"
    /\ Len(input) = 2
    /\ calls = <<>>
    /\ stdout = <<>>

----------------------------------------------------------------------------
\* the concatenation of a sequence of sequences
RECURSIVE Flatten(_)
Flatten(ss) == IF ss = <<>> THEN <<>> ELSE Head(ss) \o Flatten(Tail(ss))

\* the part of the input fgets has read
Consumed == Take(input, Len(input) - Len(stdin))

(* C14 as stated: a character of the stream is discarded, without counting
   toward the chunk length, if and only if it is a space, tab, newline or
   carriage return. *)
C14_Original ==
    [][(pc = "scan" /\ buffer # <<>>)
          => ((base32' = base32 /\ calls' = calls)
                 <=> Head(buffer) \in {32, 9, 10, 13})]_vars

(* C14 (amended): a character the scan loop examines is discarded, without
   counting toward the chunk length, if and only if isspace() holds for it:
   space, tab, newline, carriage return, vertical tab or form feed; every
   other character it examines is appended to the current chunk.  The loop
   examines the characters of each line fgets delivers up to the first NUL of
   that line: the chunks and the current chunk together are the characters
   read so far without the isspace() characters, all of them when the input
   holds no NUL. *)
C14_DiscardIffIsspace ==
    /\ [][(pc = "scan" /\ buffer # <<>>)
             => LET c == Head(buffer)
                IN  /\ (base32' = base32 /\ calls' = calls)
                           <=> c \in {32, 9, 10, 11, 12, 13}
                    /\ c \notin {32, 9, 10, 11, 12, 13}
                           => \/ base32' = Append(base32, c) /\ calls' = calls
                              \/ calls' = Append(calls, Append(base32, c))]_vars
    /\ [](pc \in {"read", "tail"}
             => /\ Flatten(calls) \o base32 = Accepted(Consumed)
                /\ 0 \notin {input[i] : i \in 1 .. Len(input)}
                      => Flatten(calls) \o base32
                            = NotInSet(Consumed, {32, 9, 10, 11, 12, 13}))

\* the run on "N\vA" has decoded the chunk "NA"
C14_Witness ==
    /\ input = <<78, 11, 65>>
    /\ pc = "done"
    /\ calls = <<<<78, 65>>>>

----------------------------------------------------------------------------
(* C15: the error state is reset to none once, by the step that starts the
   run before anything is read, and no later step clears it; it is none
   whenever b32dec_output is called; once it holds another value the run
   has halted and the value stays. *)
C15_ErrorLatched ==
    /\ [](pc # "start" => (error # NOERROR => pc = "exited"))
    /\ [][/\ pc = "start" => (error' = NOERROR /\ stdin' = input /\ calls' = <<>>)
          /\ (error # NOERROR /\ error' = NOERROR) => pc = "start"
          /\ calls' # calls => error = NOERROR
          /\ (pc # "start" /\ error # NOERROR) => error' = error]_vars

\* the run has halted on its second chunk with the error state set
C15_Witness ==
    /\ pc = "exited"
    /\ Len(calls) = 2
    /\ error = INV_B32_SIZE
    /\ exitStatus = EXIT_FAILURE

----------------------------------------------------------------------------
(* C16: on any failure the diagnostic describes the error kind and carries
   its payload: the offending character for invalid data, the offending
   length for an invalid size, the code for any other error. *)
C16_DiagnosticHasPayload ==
    (pc = "exited" /\ stderr # <<>>)
       => /\ Len(stderr) = 1
          /\ Last(stderr).arg # ""

\* what does hold: exactly one diagnostic is printed, it names the kind of
\* the error and, for invalid data, invalid size and a failed write, nothing
\* else
C16_DiagnosticNamesKind ==
    /\ pc = "exited" <=> stderr # <<>>
    /\ pc = "exited"
          => /\ Len(stderr) = 1
             /\ Last(stderr).arg = ""
             /\ Last(stderr).text =
                   (CASE error = INV_B32_DATA -> "Invalid data value encountered on STDIN."
                      [] error = INV_B32_SIZE -> "Invalid data size encountered on STDIN."
                      [] error = WRITE_FAILED -> "Write to STDOUT failed.")

----------------------------------------------------------------------------
\* the number of characters read from STDIN that isspace() does not skip
ReadCount == CountOutside(Consumed, {32, 9, 10, 11, 12, 13})

\* every chunk handed over so far was written completely
AllWritten ==
    /\ error = NOERROR
    /\ Len(writes) = Len(calls)
    /\ Len(stdout) = Sum(writes)

(* C17 as stated: no character beyond the end of chunk k is read from the
   input stream until chunk k has been decoded and written.  With k - 1
   chunks handed over, at most 8 k characters other than whitespace have
   been read. *)
C17_Original ==
    ReadCount <= GroupSize * (Len(calls) + 1)

(* C17 (amended): fgets reads a whole line of up to 80 characters from the
   input stream before any of its chunks is decoded, so characters beyond
   chunk k are read early; but the driver takes no character out of the line
   buffer, reads no further line and decodes no chunk k+1 until chunk k has
   been decoded and its write has completed, decode and write of a chunk
   being one uninterrupted call; a new line is read only when the buffer
   has been scanned to its end. *)
C17_ChunkToCompletion ==
    /\ [](Len(buffer) <= BufSize - 1)
    /\ [][/\ (buffer' # buffer \/ stdin' # stdin \/ calls' # calls) => AllWritten
          /\ stdin' # stdin => buffer = <<>>
          /\ calls' # calls
                => /\ Len(calls') = Len(calls) + 1
                   /\ \/ Len(writes') = Len(calls')
                      \/ error' \in {INV_B32_DATA, INV_B32_SIZE}]_vars

\* chunk 2 was decoded and written after chunk 1
C17_Witness ==
    /\ Len(calls) = 2
    /\ AllWritten
    /\ pc = "return"

\* 10 characters have been read from STDIN and no chunk is decoded yet
C17_WitnessReadAhead ==
    /\ calls = <<>>
    /\ ReadCount = 10
    /\ pc = "scan"

----------------------------------------------------------------------------
\* a measure of the work left: the characters still to read and to scan,
\* and the steps of b32dec_entry still to take
Rank ==
    IF Terminated
    THEN 0
    ELSE 4 * Len(stdin) + 2 * Len(buffer)
             + (CASE pc = "start" -> 5 [] pc = "scan" -> 4 [] pc = "read" -> 3
                  [] pc = "tail" -> 2 [] OTHER -> 1)

(* C18: the run on a finite input terminates, by returning after the end of
   the input or by halting on the first failing chunk: every step lowers
   the measure of the work left, which is never negative, a run that has
   not ended can always take a step, and one that has ended takes none.  It
   makes at most ceil(n / 8) decode calls for n non-whitespace characters. *)
C18_Terminates ==
    /\ [](/\ Rank >= 0
          /\ (Rank = 0) <=> Terminated
          /\ CASE pc = "start" -> ENABLED Start
                 [] pc = "read" -> stdin # <<>> \/ ENABLED FgetsEOF
                 [] pc = "scan" -> ENABLED (ScanEnd \/ ScanSpace \/ ScanStore
                                              \/ ScanFlush)
                 [] pc = "tail" -> ENABLED Remaining
                 [] pc = "return" -> ENABLED Return
                 [] OTHER -> Terminated /\ ~ENABLED Next
          /\ Len(calls) <= (CountOutside(input, {32, 9, 10, 11, 12, 13}) + 7) \div 8)
    /\ [][Rank' < Rank]_vars

\* the run has returned after the two decode calls its 10 non-whitespace
\* characters allow
C18_Witness ==
    /\ pc = "done"
    /\ CountOutside(input, {32, 9, 10, 11, 12, 13}) = 10
    /\ Len(calls) = 2

-----------------------------------------------------------------------------
\* C19: b32dec_output is never called with an empty chunk and fwrite is never
\* called with size 0: every chunk handed to b32dec_output has 1 to 8
\* characters; every fwrite follows a successful decode of the chunk of the
\* same index and its size is the length of the formatted decoding, 1 to 5
\* bytes in raw mode and 2 to 10 bytes in hex mode, so within the 5-byte and
\* 10-byte buffers; and a WRITE_FAILED state always comes from a write of at
\* least one byte that the sink did not take in full.
C19_NeverEmptyWrite ==
    /\ \A i \in 1 .. Len(calls) : Len(calls[i]) \in 1 .. GroupSize
    /\ Len(writes) <= Len(calls)
    /\ \A i \in 1 .. Len(writes) :
           /\ i <= Len(calls)
           /\ Decoded(calls[i]).err = NOERROR
           /\ writes[i] = Len(Formatted(Decoded(calls[i]).bytes, hexOutput))
           /\ IF hexOutput
              THEN writes[i] \in 2 .. HexCap
              ELSE writes[i] \in 1 .. BinaryCap
    /\ Len(binary) <= BinaryCap
    /\ (pc # "start" /\ error = WRITE_FAILED) =>
           /\ writes # <<>>
           /\ Last(writes) > 0
           /\ Len(stdout) < Sum(writes)

\* in hex mode a full first chunk has been written as 10 digits, and the
\* write of the 2 digits of a remaining 2-character chunk has failed
C19_Witness ==
    /\ hexOutput
    /\ pc = "exited"
    /\ error = WRITE_FAILED
    /\ Len(calls) = 2
    /\ writes = <<10, 2>>

-----------------------------------------------------------------------------
\* the index of the first chunk that does not decode, 0 when all decode
FirstFailing(chunks) ==
    LET B == {i \in 1 .. Len(chunks) : Decoded(chunks[i]).err # NOERROR}
    IN  IF B = {} THEN 0 ELSE CHOOSE i \in B : \A j \in B : i <= j

\* the behaviour of the sink in this run: the index of the fwrite call it did
\* not take in full, 0 when it took every call in full
SinkRefused == IF Len(stdout) < Sum(writes) THEN Len(writes) ELSE 0

\* how the run ended: halted or returned, after how many chunks, and with
\* which error kind
Outcome == [halted |-> pc = "exited", index |-> Len(calls), kind |-> error]

\* the outcome as a function of the input and of the sink's behaviour alone
Expected(stream, refused) ==
    LET G == Groups(Accepted(stream), GroupSize)
        bad == FirstFailing(G)
    IN  IF refused > 0
        THEN [halted |-> TRUE, index |-> refused, kind |-> WRITE_FAILED]
        ELSE IF bad > 0
        THEN [halted |-> TRUE, index |-> bad, kind |-> Decoded(G[bad]).err]
        ELSE [halted |-> FALSE, index |-> Len(G), kind |-> NOERROR]

\* C20: the outcome of a run does not depend on the hex flag.  When the run
\* has ended, whether it halted, the index of the chunk it halted at and the
\* error kind are a function of the input and of the sink's behaviour (which
\* fwrite call, if any, it did not take in full), the same function with and
\* without the flag; the exit status follows from it; and the flag shows only
\* in the bytes written, which are the decodings of the chunks written, as
\* hex digits with the flag and as they are without it.
C20_HexFlagIndependent ==
    Terminated =>
        /\ Outcome = Expected(input, SinkRefused)
        /\ exitStatus = (IF Outcome.halted THEN EXIT_FAILURE ELSE EXIT_SUCCESS)
        /\ IsPrefix(calls, Groups(Accepted(input), GroupSize))
        /\ LET full == IF SinkRefused > 0
                       THEN SinkRefused - 1
                       ELSE Len(writes)
               raw == RawAll(Take(calls, Len(writes)))
               done == RawAll(Take(calls, full))
           IN  /\ IsPrefix(stdout, AsWritten(raw))
               /\ IsPrefix(AsWritten(done), stdout)
               /\ Len(AsWritten(done)) = (IF hexOutput THEN 2 ELSE 1) * Len(done)
               /\ SinkRefused = 0 => stdout = AsWritten(done)

\* with the flag, a run over two chunks has written the first as 10 hex
\* digits and halted on an invalid character in the second
C20_Witness ==
    /\ hexOutput
    /\ pc = "exited"
    /\ error = INV_B32_DATA
    /\ Len(calls) = 2
    /\ Len(stdout) = 10

\* without the flag, a run over the same kind of input has written the first
\* chunk as 5 bytes and halted on an invalid character in the second
C20_WitnessRaw ==
    /\ ~hexOutput
    /\ pc = "exited"
    /\ error = INV_B32_DATA
    /\ Len(calls) = 2
    /\ Len(stdout) = 5

====
